---- MODULE Spec2Model ----
(***************************************************************************)
(* A model of the Float trait of src/src/float.rs and of its two           *)
(* implementations, for f32 and for f64.                                   *)
(*                                                                         *)
(* A floating-point value is its bit pattern: a function from the bit      *)
(* positions 0..w-1 (0 the least significant) to {0,1}.  TLC's integers    *)
(* are 32 bits wide, so u32 and u64 words are never turned into numbers;   *)
(* masks, shifts and comparisons work on the bits.  A reference &self is    *)
(* a record of the address it holds and the value stored there.            *)
(***************************************************************************)
EXTENDS Integers, Sequences, FiniteSets, TLC

VARIABLES
    target_env_msvc,    \* cfg(target_env = "msvc") of the build
    target_os_android,  \* cfg(target_os = "android") of the build
    pc,                 \* "idle": no call yet or the last one returned; "done": res holds a result
    T,                  \* the implementing type of the call, "f32" or "f64"
    op,                 \* the trait method called
    self,               \* the &self argument: [addr, val]
    other,              \* the second argument of hypot (a reference), else NoArg
    res,                \* the value returned
    locals              \* the locals of the last integer_decode body, else NoLocals

vars == <<target_env_msvc, target_os_android, pc, T, op, self, other, res, locals>>

(***************************************************************************)
(* Bounds of the model.                                                    *)
(***************************************************************************)
\* The low LowBits bits of the sampled mantissas take every value.
LowBits == 1
\* References point at slots 0..MaxSlot (8 bytes each) of every sampled region.
MaxSlot == 1

(***************************************************************************)
(* Words: u32 and u64 as bit vectors.                                      *)
(***************************************************************************)
\* The word of width w written as the hexadecimal digits ds (most significant first).
FromHex(w, ds) ==
    [i \in 0..(w - 1) |->
        LET d == i \div 4
        IN  IF d < Len(ds) THEN (ds[Len(ds) - d] \div (2 ^ (i % 4))) % 2 ELSE 0]

\* The word of width w holding the small number n (n < 2^30).
FromNat(w, n) == [i \in 0..(w - 1) |-> IF i < 30 THEN (n \div (2 ^ i)) % 2 ELSE 0]

\* a & b
BAnd(a, b) == [i \in DOMAIN a |-> IF a[i] = 1 /\ b[i] = 1 THEN 1 ELSE 0]
\* a | b
BOr(a, b) == [i \in DOMAIN a |-> IF a[i] = 1 \/ b[i] = 1 THEN 1 ELSE 0]
\* a >> n (logical, the word is unsigned)
Shr(a, n) == [i \in DOMAIN a |-> IF (i + n) \in DOMAIN a THEN a[i + n] ELSE 0]
\* a << n (the bits shifted out of the word are lost)
Shl(a, n) == [i \in DOMAIN a |-> IF (i - n) \in DOMAIN a THEN a[i - n] ELSE 0]
\* a == 0
IsZero(a) == \A i \in DOMAIN a : a[i] = 0

RECURSIVE SumBits(_, _, _)
\* The number held by the bits lo..hi of a, bit lo weighing 1 (hi - lo < 30).
SumBits(a, lo, hi) ==
    IF hi < lo THEN 0 ELSE a[lo] + 2 * SumBits(a, lo + 1, hi)

\* `word as i16`: the low 16 bits, read as two's complement.
AsI16(a) ==
    LET n == SumBits(a, 0, 15)
    IN  IF n >= 32768 THEN n - 65536 ELSE n

\* An i16 result of release-mode (wrapping) arithmetic.
WrapI16(n) == ((n + 32768) % 65536) - 32768

(***************************************************************************)
(* IEEE-754 binary32 and binary64: what the primitive types f32 and f64    *)
(* and their operators mean.  Fields are read by position, not by mask.    *)
(***************************************************************************)
F32 == [w |-> 32, ebits |-> 8, mbits |-> 23, bias |-> 127]
F64 == [w |-> 64, ebits |-> 11, mbits |-> 52, bias |-> 1023]
Fmt(t) == IF t = "f32" THEN F32 ELSE F64

SignBit(f, b) == b[f.w - 1]
ExpField(f, b) == SumBits(b, f.mbits, f.w - 2)
ExpMax(f) == (2 ^ f.ebits) - 1
FracIsZero(f, b) == \A i \in 0..(f.mbits - 1) : b[i] = 0

IeeeIsNan(f, b) == ExpField(f, b) = ExpMax(f) /\ ~FracIsZero(f, b)
IeeeIsInf(f, b) == ExpField(f, b) = ExpMax(f) /\ FracIsZero(f, b)
IeeeIsZero(f, b) == ExpField(f, b) = 0 /\ FracIsZero(f, b)
IeeeIsSubnormal(f, b) == ExpField(f, b) = 0 /\ ~FracIsZero(f, b)
IeeeIsFinite(f, b) == ExpField(f, b) # ExpMax(f)

\* |a| < |b| for two patterns that are not NaN: the magnitude bits compared as a number.
MagLt(f, a, b) ==
    \E i \in 0..(f.w - 2) :
        /\ a[i] = 0
        /\ b[i] = 1
        /\ \A j \in (i + 1)..(f.w - 2) : a[j] = b[j]

\* a == b on floats: false with a NaN on either side, true for +0.0 and -0.0.
FEq(f, a, b) ==
    /\ ~IeeeIsNan(f, a)
    /\ ~IeeeIsNan(f, b)
    /\ (a = b \/ (IeeeIsZero(f, a) /\ IeeeIsZero(f, b)))

\* a != b on floats.
FNe(f, a, b) == ~FEq(f, a, b)

\* a < b on floats: false with a NaN on either side.
FLt(f, a, b) ==
    /\ ~IeeeIsNan(f, a)
    /\ ~IeeeIsNan(f, b)
    /\ ~(IeeeIsZero(f, a) /\ IeeeIsZero(f, b))
    /\ CASE SignBit(f, a) = 1 /\ SignBit(f, b) = 0 -> TRUE
         [] SignBit(f, a) = 0 /\ SignBit(f, b) = 1 -> FALSE
         [] SignBit(f, a) = 0 /\ SignBit(f, b) = 0 -> MagLt(f, a, b)
         [] OTHER -> MagLt(f, b, a)

\* a > b on floats.
FGt(f, a, b) == FLt(f, b, a)

\* The literal 0.0.
FZero(f) == [i \in 0..(f.w - 1) |-> 0]
\* core::f32::INFINITY, core::f64::INFINITY
INFINITY(f) == [i \in 0..(f.w - 1) |-> IF i >= f.mbits /\ i < f.w - 1 THEN 1 ELSE 0]
\* core::f32::NEG_INFINITY, core::f64::NEG_INFINITY
NEG_INFINITY(f) == [i \in 0..(f.w - 1) |-> IF i >= f.mbits THEN 1 ELSE 0]

\* The class and sign of a pattern, all a comparison with an infinity can see.
ClassOf(f, b) ==
    [kind |-> CASE IeeeIsNan(f, b) -> "nan"
                [] IeeeIsInf(f, b) -> "inf"
                [] IeeeIsZero(f, b) -> "zero"
                [] OTHER -> "finite",
     neg |-> SignBit(f, b) = 1]

\* The largest magnitude whose reciprocal rounds to an infinity: 2^-(bias+1), the
\* subnormal whose only fraction bit is bit mbits-2.  (1/x overflows when
\* 1/|x| >= 2^(bias+1) - 2^(bias-mbits); for |x| = k * 2^(1-bias-mbits) that is
\* k <= 2^(mbits-2).)
RecipOverflowMax(f) == [i \in 0..(f.w - 1) |-> IF i = f.mbits - 2 THEN 1 ELSE 0]

\* 1.0 / x, rounded to nearest: the class and sign of the quotient.
FRecip(f, x) ==
    LET neg == SignBit(f, x) = 1
        xmag == [x EXCEPT ![f.w - 1] = 0]
    IN  CASE IeeeIsNan(f, x) -> [kind |-> "nan", neg |-> neg]
          [] IeeeIsZero(f, x) -> [kind |-> "inf", neg |-> neg]
          [] IeeeIsInf(f, x) -> [kind |-> "zero", neg |-> neg]
          [] xmag = RecipOverflowMax(f) \/ MagLt(f, xmag, RecipOverflowMax(f)) ->
                [kind |-> "inf", neg |-> neg]
          [] OTHER -> [kind |-> "finite", neg |-> neg]

\* q == c for a quotient q known by class and sign and an infinity c.
QEqInf(f, q, c) == q.kind = "inf" /\ q = ClassOf(f, c)

(***************************************************************************)
(* Exact values, for the reconstruction identity sign * mantissa * 2^exp.  *)
(* A nonzero dyadic number is kept in lowest terms: the set of the bit     *)
(* positions of its odd mantissa, and the exponent.                        *)
(***************************************************************************)
LowestBit(m) == CHOOSE p \in DOMAIN m : m[p] = 1 /\ \A j \in DOMAIN m : j < p => m[j] = 0
HighestBit(m) == CHOOSE p \in DOMAIN m : m[p] = 1 /\ \A j \in DOMAIN m : j > p => m[j] = 0

\* (neg ? -1 : 1) * m * 2^e for the word m.
Dyadic(neg, m, e) ==
    IF IsZero(m)
    THEN [zero |-> TRUE, neg |-> FALSE, man |-> {}, exp |-> 0]
    ELSE LET tz == LowestBit(m)
         IN  [zero |-> FALSE, neg |-> neg,
              man |-> {i - tz : i \in {j \in DOMAIN m : m[j] = 1}},
              exp |-> e + tz]

\* The real number a finite pattern denotes: (-1)^s * 2^(E-bias) * 1.frac when the
\* exponent field E is not zero, (-1)^s * 2^(1-bias) * 0.frac when it is.
IeeeValue(f, b) ==
    LET E == ExpField(f, b)
        sig == [i \in 0..f.mbits |-> IF i < f.mbits THEN b[i] ELSE IF E = 0 THEN 0 ELSE 1]
    IN  Dyadic(SignBit(f, b) = 1, sig, (IF E = 0 THEN 1 ELSE E) - f.bias - f.mbits)

\* The real number a decoded triple (mantissa, exponent, sign) denotes.
TripleValue(t) == Dyadic(t[3] = -1, t[1], t[2])

(***************************************************************************)
(* References and the casts of the code.                                   *)
(***************************************************************************)
Ref(a, v) == [addr |-> a, val |-> v]

\* *self
Deref(s) == s.val

\* mem::transmute(*self): the float's bits as the unsigned word of its width.
TransmuteValue(s) == Deref(s)

\* mem::transmute(self) with self: &f64, as integer_decode writes it: the
\* reference itself as a u64, which is the address it holds (64-bit targets;
\* a 32-bit target rejects the transmute, the sizes differ).
TransmuteRef(s) == s.addr

\* The f64 of sign s, exponent field e and fraction bits frac (a function on 0..51).
MkF64(s, e, frac) ==
    [i \in 0..63 |->
        IF i = 63 THEN s
        ELSE IF i >= 52 THEN (e \div (2 ^ (i - 52))) % 2
        ELSE frac[i]]

\* `x as f64` for an f32 x: exact; a subnormal f32 becomes a normal f64, a NaN
\* keeps its payload in the high fraction bits and is quiet.
F32ToF64(x) ==
    LET s == x[31]
        E == ExpField(F32, x)
        wide == [i \in 0..51 |-> IF i >= 29 THEN x[i - 29] ELSE 0]
    IN  CASE E = 255 /\ FracIsZero(F32, x) -> MkF64(s, 2047, wide)
          [] E = 255 -> MkF64(s, 2047, [wide EXCEPT ![51] = 1])
          [] E = 0 /\ FracIsZero(F32, x) -> MkF64(s, 0, wide)
          [] E = 0 ->
                LET p == HighestBit([i \in 0..22 |-> x[i]])
                IN  MkF64(s, p - 149 + 1023,
                          [i \in 0..51 |->
                              IF (i - (52 - p)) \in 0..(p - 1) THEN x[i - (52 - p)] ELSE 0])
          [] OTHER -> MkF64(s, E - 127 + 1023, wide)

(***************************************************************************)
(* Results of the numeric primitives the code forwards to.  The value of   *)
(* an intrinsic or of a library routine is not computed: it is the term    *)
(* naming the routine and its arguments in order, so that two results are  *)
(* equal exactly when the same routine was given the same arguments.       *)
(***************************************************************************)
Lit(b) == [fn |-> "lit", args |-> <<>>, bits |-> b]
Call(fn, args) == [fn |-> fn, args |-> args, bits |-> <<>>]

\* core::intrinsics::<name>(args)
Intrinsic(name, args) == Call(name, args)

\* `t as f32` for an f64 result t that is a term.
AsF32(t) == Call("as f32", <<t>>)

One32 == FromHex(32, <<3, 15, 8, 0, 0, 0, 0, 0>>)
One64 == FromHex(64, <<3, 15, 15, 0, 0, 0, 0, 0, 0, 0, 0, 0, 0, 0, 0, 0>>)

\* The routines of the extern block (libm).  At the points of the doc tests
\* they return the values the doc tests assert; elsewhere the result is the term.
Extern(name, args) ==
    CASE name = "cbrtf" /\ args = <<Lit(One32)>> -> Lit(One32)
      [] name = "hypotf" /\ args = <<Lit(One32), Lit(One32)>> ->
            Lit(FromHex(32, <<3, 15, 11, 5, 0, 4, 15, 3>>))
      [] name = "expm1f" /\ args = <<Lit(One32)>> ->
            Lit(FromHex(32, <<3, 15, 13, 11, 15, 0, 10, 8>>))
      [] name = "log1pf" /\ args = <<Lit(One32)>> ->
            Lit(FromHex(32, <<3, 15, 3, 1, 7, 2, 1, 8>>))
      [] name = "cbrt" /\ args = <<Lit(One64)>> -> Lit(One64)
      [] name = "hypot" /\ args = <<Lit(One64), Lit(One64)>> ->
            Lit(FromHex(64, <<3, 15, 15, 6, 10, 0, 9, 14, 6, 6, 7, 15, 3, 11, 12, 13>>))
      [] name = "expm1" /\ args = <<Lit(One64)>> ->
            Lit(FromHex(64, <<3, 15, 15, 11, 7, 14, 1, 5, 1, 6, 2, 8, 10, 14, 13, 2>>))
      [] name = "log1p" /\ args = <<Lit(One64)>> ->
            Lit(FromHex(64, <<3, 15, 14, 6, 2, 14, 4, 2, 15, 14, 15, 10, 3, 9, 14, 15>>))
      [] OTHER -> Call(name, args)

(***************************************************************************)
(* impl_core_float!($T): the methods both implementations share.  t is     *)
(* the macro's $T, "f32" or "f64"; s is &self.                             *)
(***************************************************************************)
F32_EXP_MASK == FromHex(32, <<7, 15, 8, 0, 0, 0, 0, 0>>)
\* F32_MAN_MASK one hex digit too wide (0x00ffffff): it takes in the low exponent bit.
F32_MAN_MASK_wide == FromHex(32, <<0, 0, 15, 15, 15, 15, 15, 15>>)
F32_MAN_MASK == FromHex(32, <<0, 0, 7, 15, 15, 15, 15, 15>>)
F64_EXP_MASK == FromHex(64, <<7, 15, 15, 0, 0, 0, 0, 0, 0, 0, 0, 0, 0, 0, 0, 0>>)
F64_MAN_MASK == FromHex(64, <<0, 0, 0, 15, 15, 15, 15, 15, 15, 15, 15, 15, 15, 15, 15, 15>>)

\* match (bits & MAN_MASK, bits & EXP_MASK) { ... }: the arms in order.
ClassifyMatch(man, exp, EXP_MASK) ==
    CASE IsZero(man) /\ IsZero(exp) -> "Zero"
      [] IsZero(exp) -> "Subnormal"
      [] IsZero(man) /\ exp = EXP_MASK -> "Infinite"
      [] exp = EXP_MASK -> "Nan"
      [] OTHER -> "Normal"

f32_classify(s) ==
    LET bits == TransmuteValue(s)
    IN  ClassifyMatch(BAnd(bits, F32_MAN_MASK), BAnd(bits, F32_EXP_MASK), F32_EXP_MASK)

f64_classify(s) ==
    LET bits == TransmuteValue(s)
    IN  ClassifyMatch(BAnd(bits, F64_MAN_MASK), BAnd(bits, F64_EXP_MASK), F64_EXP_MASK)

classify(t, s) == IF t = "f32" THEN f32_classify(s) ELSE f64_classify(s)

is_nan(t, s) == FNe(Fmt(t), Deref(s), Deref(s))

\* is_infinite without the comparison with NEG_INFINITY.
is_infinite_positive_only(t, s) == FEq(Fmt(t), Deref(s), INFINITY(Fmt(t)))

is_infinite(t, s) ==
    \/ FEq(Fmt(t), Deref(s), INFINITY(Fmt(t)))
    \/ FEq(Fmt(t), Deref(s), NEG_INFINITY(Fmt(t)))

is_finite(t, s) == ~(is_nan(t, s) \/ is_infinite(t, s))

is_normal(t, s) == classify(t, s) = "Normal"

is_sign_positive(t, s) ==
    \/ FGt(Fmt(t), Deref(s), FZero(Fmt(t)))
    \/ QEqInf(Fmt(t), FRecip(Fmt(t), Deref(s)), INFINITY(Fmt(t)))

\* is_sign_negative by comparison alone, without the reciprocal.
is_sign_negative_by_comparison(t, s) == FLt(Fmt(t), Deref(s), FZero(Fmt(t)))

is_sign_negative(t, s) ==
    \/ FLt(Fmt(t), Deref(s), FZero(Fmt(t)))
    \/ QEqInf(Fmt(t), FRecip(Fmt(t), Deref(s)), NEG_INFINITY(Fmt(t)))

(***************************************************************************)
(* integer_decode.                                                         *)
(***************************************************************************)
\* RAW_EXP_MASK one bit too wide (0xfff): it takes in the sign bit.
RAW_EXP_MASK_wide == FromHex(64, <<15, 15, 15>>)
\* 0x7ff
RAW_EXP_MASK == FromHex(64, <<7, 15, 15>>)
\* 0xfffffffffffff
RAW_MAN_MASK == FromHex(64, <<15, 15, 15, 15, 15, 15, 15, 15, 15, 15, 15, 15, 15>>)
\* 0x10000000000000
IMPLICIT_BIT == FromHex(64, <<1, 0, 0, 0, 0, 0, 0, 0, 0, 0, 0, 0, 0, 0>>)

\* The body of <f64 as Float>::integer_decode after `bits` is read: every local.
\* wide is exponent - (1023 + 52) before it is stored back into the i16.
DecodeWord(bits) ==
    LET sign == IF IsZero(Shr(bits, 63)) THEN 1 ELSE -1
        field == BAnd(Shr(bits, 52), RAW_EXP_MASK)
        exponent == AsI16(field)
        mantissa == IF exponent = 0
                    THEN Shl(BAnd(bits, RAW_MAN_MASK), 1)
                    ELSE BOr(BAnd(bits, RAW_MAN_MASK), IMPLICIT_BIT)
        wide == exponent - (1023 + 52)
    IN  [bits |-> bits, sign |-> sign, field |-> field, raw_exponent |-> exponent,
         masked |-> BAnd(bits, RAW_MAN_MASK), mantissa |-> mantissa,
         wide |-> wide, exponent |-> WrapI16(wide)]

\* The triple a run of the body returns.
Triple(l) == <<l.mantissa, l.exponent, l.sign>>

\* <f64 as Float>::integer_decode(&self): bits is the transmuted reference.
f64_integer_decode_locals(s) == DecodeWord(TransmuteRef(s))
f64_integer_decode(s) == Triple(f64_integer_decode_locals(s))

\* <f32 as Float>::integer_decode(&self): the f64 method on a reference to the
\* temporary holding *self as f64; tmp is where the build put the temporary.
f32_integer_decode_locals(s, tmp) == f64_integer_decode_locals(Ref(tmp, F32ToF64(Deref(s))))
f32_integer_decode(s, tmp) == Triple(f32_integer_decode_locals(s, tmp))

(***************************************************************************)
(* The transcendental methods.                                             *)
(***************************************************************************)
f64_exp(s) == Intrinsic("expf64", <<Lit(Deref(s))>>)
f64_ln(s) == Intrinsic("logf64", <<Lit(Deref(s))>>)
f64_log2(s) == Intrinsic("log2f64", <<Lit(Deref(s))>>)
f64_log10(s) == Intrinsic("log10f64", <<Lit(Deref(s))>>)
f64_cbrt(s) == Extern("cbrt", <<Lit(Deref(s))>>)
f64_hypot(s, o) == Extern("hypot", <<Lit(Deref(s)), Lit(Deref(o))>>)
f64_exp_m1(s) == Extern("expm1", <<Lit(Deref(s))>>)
f64_ln_1p(s) == Extern("log1p", <<Lit(Deref(s))>>)

f32_cbrt(s) == Extern("cbrtf", <<Lit(Deref(s))>>)
\* f32_hypot with its arguments passed in the other order.
f32_hypot_swapped(s, o) == Extern("hypotf", <<Lit(Deref(o)), Lit(Deref(s))>>)
f32_hypot(s, o) == Extern("hypotf", <<Lit(Deref(s)), Lit(Deref(o))>>)
f32_exp_m1(s) == Extern("expm1f", <<Lit(Deref(s))>>)
f32_ln_1p(s) == Extern("log1pf", <<Lit(Deref(s))>>)

\* (*self as f64): a temporary f64.  exp, ln and log10 read its value only, so
\* the address of self stands in for the temporary's.
WidenedTemp(s) == Ref(s.addr, F32ToF64(Deref(s)))

\* The items of the crate root (lib.rs): its only module.
CrateRootModules == {"float"}

\* A path ::m::... names an item only if m is an item of the crate root.
Resolves(m) == m \in CrateRootModules

\* The bodies of the cfg-gated f32 methods, by the line that starts each.
f32_exp_msvc(s) == AsF32(f64_exp(WidenedTemp(s)))
f32_exp_default(s) == Intrinsic("expf32", <<Lit(Deref(s))>>)
f32_ln_msvc(s) == AsF32(f64_ln(WidenedTemp(s)))
f32_ln_default(s) == Intrinsic("logf32", <<Lit(Deref(s))>>)
f32_log2_android(s) ==
    IF Resolves("sys")
    THEN Call("sys::android::log2f32", <<Lit(Deref(s))>>)
    ELSE Call("unresolved path ::sys::android::log2f32", <<>>)
f32_log2_default(s) == Intrinsic("log2f32", <<Lit(Deref(s))>>)
f32_log10_msvc(s) == AsF32(f64_log10(WidenedTemp(s)))
f32_log10_default(s) == Intrinsic("log10f32", <<Lit(Deref(s))>>)

\* The definitions of the four gated methods in impl Float for f32: the method,
\* the #[cfg(...)] predicate on it and its body.
F32GatedItems ==
    { [name |-> "exp", cfg |-> "msvc", body |-> "f32_exp_msvc"],
      [name |-> "exp", cfg |-> "not msvc", body |-> "f32_exp_default"],
      [name |-> "ln", cfg |-> "msvc", body |-> "f32_ln_msvc"],
      [name |-> "ln", cfg |-> "not msvc", body |-> "f32_ln_default"],
      [name |-> "log2", cfg |-> "android", body |-> "f32_log2_android"],
      [name |-> "log2", cfg |-> "not android", body |-> "f32_log2_default"],
      [name |-> "log10", cfg |-> "msvc", body |-> "f32_log10_msvc"],
      [name |-> "log10", cfg |-> "not msvc", body |-> "f32_log10_default"] }

\* Whether a #[cfg(...)] predicate holds in the build b = [msvc, android].
CfgHolds(c, b) ==
    CASE c = "msvc" -> b.msvc
      [] c = "not msvc" -> ~b.msvc
      [] c = "android" -> b.android
      [] c = "not android" -> ~b.android

\* The definitions of f32 method o the build keeps.
Kept(o, b) == {d \in F32GatedItems : d.name = o /\ CfgHolds(d.cfg, b)}

RunBody(body, s) ==
    CASE body = "f32_exp_msvc" -> f32_exp_msvc(s)
      [] body = "f32_exp_default" -> f32_exp_default(s)
      [] body = "f32_ln_msvc" -> f32_ln_msvc(s)
      [] body = "f32_ln_default" -> f32_ln_default(s)
      [] body = "f32_log2_android" -> f32_log2_android(s)
      [] body = "f32_log2_default" -> f32_log2_default(s)
      [] body = "f32_log10_msvc" -> f32_log10_msvc(s)
      [] body = "f32_log10_default" -> f32_log10_default(s)

\* A call of the gated f32 method o in build b: the one definition kept runs; no
\* definition or two is a build error.
f32_gated(o, b, s) ==
    LET ds == Kept(o, b)
    IN  IF Cardinality(ds) = 1
        THEN RunBody((CHOOSE d \in ds : TRUE).body, s)
        ELSE Call("build error", <<>>)

(***************************************************************************)
(* The inputs: floats of both widths and the addresses references hold.    *)
(***************************************************************************)
Types == {"f32", "f64"}

\* Shapes of the fraction bits above the low LowBits: all clear; only bit mbits-2
\* (with a zero exponent field, the largest magnitude whose reciprocal overflows);
\* all set.
HiPatterns == {"none", "thr", "ones"}

FracBit(f, hi, lo, i) ==
    IF i < LowBits THEN (lo \div (2 ^ i)) % 2
    ELSE CASE hi = "none" -> 0
           [] hi = "thr" -> IF i = f.mbits - 2 THEN 1 ELSE 0
           [] OTHER -> 1

MkFloat(f, s, e, hi, lo) ==
    [i \in 0..(f.w - 1) |->
        IF i = f.w - 1 THEN s
        ELSE IF i >= f.mbits THEN (e \div (2 ^ (i - f.mbits))) % 2
        ELSE FracBit(f, hi, lo, i)]

\* Exponent fields: zero and subnormal, the smallest normal, 1.0, the largest
\* finite, infinite and NaN.
Exps(f) == {0, 1, f.bias, ExpMax(f) - 1, ExpMax(f)}

Floats(f) ==
    {MkFloat(f, s, e, hi, lo) :
        s \in {0, 1}, e \in Exps(f), hi \in HiPatterns, lo \in 0..((2 ^ LowBits) - 1)}

\* A reference is any non-null address aligned for its type; which one is up to
\* the build and the platform.  Regions sampled: a user-space stack
\* (0x00007ffd4a3b1000), a tagged heap pointer (0xb400007123456000), and two in
\* the upper half of the address space (0xffff888000001000, and
\* 0xfff0000000000000 of a 57-bit address space).
Regions ==
    { FromHex(64, <<0, 0, 0, 0, 7, 15, 15, 13, 4, 10, 3, 11, 1, 0, 0, 0>>),
      FromHex(64, <<11, 4, 0, 0, 0, 0, 7, 1, 2, 3, 4, 5, 6, 0, 0, 0>>),
      FromHex(64, <<15, 15, 15, 15, 8, 8, 8, 0, 0, 0, 0, 0, 1, 0, 0, 0>>),
      FromHex(64, <<15, 15, 15, 0, 0, 0, 0, 0, 0, 0, 0, 0, 0, 0, 0, 0>>) }

Addrs == {BOr(r, FromNat(64, 8 * k)) : r \in Regions, k \in 0..MaxSlot}

\* The sampled addresses of the user-space stack.
StackAddrs == {a \in Addrs : SumBits(a, 47, 63) = 0}

\* Where the self of a call of method o of type t is sampled.  Only the f64
\* integer_decode reads the address of self; for it every region is sampled.
SelfAddrs(t, o) == IF t = "f64" /\ o = "integer_decode" THEN Addrs ELSE StackAddrs

Refs(t, o) == {Ref(a, v) : a \in SelfAddrs(t, o), v \in Floats(Fmt(t))}

\* The second argument of hypot: 1.0, or the negation of the first argument,
\* at another stack slot.
Others(t, s) ==
    {Ref(a, v) : a \in StackAddrs \ {s.addr},
                 v \in {[Deref(s) EXCEPT ![Fmt(t).w - 1] = 1 - @],
                        IF t = "f32" THEN One32 ELSE One64}}

NoArg == [addr |-> <<>>, val |-> <<>>]
NoLocals == [bits |-> <<>>]
NoType == "none"
NoOp == "none"
NoRes == "none"

(***************************************************************************)
(* Calls.                                                                  *)
(***************************************************************************)
Build == [msvc |-> target_env_msvc, android |-> target_os_android]

\* What method o of the implementation for t returns in build b; tmp is the
\* address of the temporary the f32 integer_decode makes.
Result(t, o, s, oth, tmp, b) ==
    CASE o = "classify" -> classify(t, s)
      [] o = "is_nan" -> is_nan(t, s)
      [] o = "is_infinite" -> is_infinite(t, s)
      [] o = "is_finite" -> is_finite(t, s)
      [] o = "is_normal" -> is_normal(t, s)
      [] o = "is_sign_positive" -> is_sign_positive(t, s)
      [] o = "is_sign_negative" -> is_sign_negative(t, s)
      [] o = "integer_decode" ->
            IF t = "f32" THEN f32_integer_decode(s, tmp) ELSE f64_integer_decode(s)
      [] o = "cbrt" -> IF t = "f32" THEN f32_cbrt(s) ELSE f64_cbrt(s)
      [] o = "hypot" -> IF t = "f32" THEN f32_hypot(s, oth) ELSE f64_hypot(s, oth)
      [] o = "exp_m1" -> IF t = "f32" THEN f32_exp_m1(s) ELSE f64_exp_m1(s)
      [] o = "ln_1p" -> IF t = "f32" THEN f32_ln_1p(s) ELSE f64_ln_1p(s)
      [] o = "exp" -> IF t = "f32" THEN f32_gated(o, b, s) ELSE f64_exp(s)
      [] o = "ln" -> IF t = "f32" THEN f32_gated(o, b, s) ELSE f64_ln(s)
      [] o = "log2" -> IF t = "f32" THEN f32_gated(o, b, s) ELSE f64_log2(s)
      [] o = "log10" -> IF t = "f32" THEN f32_gated(o, b, s) ELSE f64_log10(s)

LocalsOf(t, o, s, tmp) ==
    IF o # "integer_decode" THEN NoLocals
    ELSE IF t = "f32" THEN f32_integer_decode_locals(s, tmp)
    ELSE f64_integer_decode_locals(s)

\* Where the temporary of a call can be: only the f32 integer_decode makes one,
\* in the stack frame, and it is not the object self points at.
Temps(t, o, s) ==
    IF t = "f32" /\ o = "integer_decode" THEN StackAddrs \ {s.addr} ELSE {s.addr}

Returns(t, o, s, oth, tmp) ==
    /\ pc' = "done"
    /\ T' = t
    /\ op' = o
    /\ self' = s
    /\ other' = oth
    /\ res' = Result(t, o, s, oth, tmp, Build)
    /\ locals' = LocalsOf(t, o, s, tmp)
    /\ UNCHANGED <<target_env_msvc, target_os_android>>

Classify ==
    /\ pc = "idle"
    /\ \E t \in Types : \E s \in Refs(t, "classify") : Returns(t, "classify", s, NoArg, s.addr)

IsNan ==
    /\ pc = "idle"
    /\ \E t \in Types : \E s \in Refs(t, "is_nan") : Returns(t, "is_nan", s, NoArg, s.addr)

IsInfinite ==
    /\ pc = "idle"
    /\ \E t \in Types : \E s \in Refs(t, "is_infinite") : Returns(t, "is_infinite", s, NoArg, s.addr)

IsFinite ==
    /\ pc = "idle"
    /\ \E t \in Types : \E s \in Refs(t, "is_finite") : Returns(t, "is_finite", s, NoArg, s.addr)

IsNormal ==
    /\ pc = "idle"
    /\ \E t \in Types : \E s \in Refs(t, "is_normal") : Returns(t, "is_normal", s, NoArg, s.addr)

IsSignPositive ==
    /\ pc = "idle"
    /\ \E t \in Types : \E s \in Refs(t, "is_sign_positive") : Returns(t, "is_sign_positive", s, NoArg, s.addr)

IsSignNegative ==
    /\ pc = "idle"
    /\ \E t \in Types : \E s \in Refs(t, "is_sign_negative") : Returns(t, "is_sign_negative", s, NoArg, s.addr)

IntegerDecode ==
    /\ pc = "idle"
    /\ \E t \in Types : \E s \in Refs(t, "integer_decode") : \E tmp \in Temps(t, "integer_decode", s) :
          Returns(t, "integer_decode", s, NoArg, tmp)

Cbrt ==
    /\ pc = "idle"
    /\ \E t \in Types : \E s \in Refs(t, "cbrt") : Returns(t, "cbrt", s, NoArg, s.addr)

ExpM1 ==
    /\ pc = "idle"
    /\ \E t \in Types : \E s \in Refs(t, "exp_m1") : Returns(t, "exp_m1", s, NoArg, s.addr)

Ln1p ==
    /\ pc = "idle"
    /\ \E t \in Types : \E s \in Refs(t, "ln_1p") : Returns(t, "ln_1p", s, NoArg, s.addr)

Exp ==
    /\ pc = "idle"
    /\ \E t \in Types : \E s \in Refs(t, "exp") : Returns(t, "exp", s, NoArg, s.addr)

Ln ==
    /\ pc = "idle"
    /\ \E t \in Types : \E s \in Refs(t, "ln") : Returns(t, "ln", s, NoArg, s.addr)

Log2 ==
    /\ pc = "idle"
    /\ \E t \in Types : \E s \in Refs(t, "log2") : Returns(t, "log2", s, NoArg, s.addr)

Log10 ==
    /\ pc = "idle"
    /\ \E t \in Types : \E s \in Refs(t, "log10") : Returns(t, "log10", s, NoArg, s.addr)

Hypot ==
    /\ pc = "idle"
    /\ \E t \in Types : \E s \in Refs(t, "hypot") : \E oth \in Others(t, s) :
          Returns(t, "hypot", s, oth, s.addr)

\* The caller copies the value it just passed (`let y = x;`) and calls the same
\* method on the copy, which lives at another address.
CallOnCopy ==
    /\ pc = "done"
    /\ \E a \in SelfAddrs(T, op) \ {self.addr} :
          \E tmp \in Temps(T, op, Ref(a, Deref(self))) :
              Returns(T, op, Ref(a, Deref(self)), other, tmp)

\* The caller drops the result.
Return ==
    /\ pc = "done"
    /\ pc' = "idle"
    /\ T' = NoType
    /\ op' = NoOp
    /\ self' = NoArg
    /\ other' = NoArg
    /\ res' = NoRes
    /\ locals' = NoLocals
    /\ UNCHANGED <<target_env_msvc, target_os_android>>

Init ==
    /\ target_env_msvc \in BOOLEAN
    /\ target_os_android \in BOOLEAN
    /\ pc = "idle"
    /\ T = NoType
    /\ op = NoOp
    /\ self = NoArg
    /\ other = NoArg
    /\ res = NoRes
    /\ locals = NoLocals

Next ==
    \/ Classify
    \/ IsNan
    \/ IsInfinite
    \/ IsFinite
    \/ IsNormal
    \/ IsSignPositive
    \/ IsSignNegative
    \/ IntegerDecode
    \/ Cbrt
    \/ Hypot
    \/ ExpM1
    \/ Ln1p
    \/ Exp
    \/ Ln
    \/ Log2
    \/ Log10
    \/ CallOnCopy
    \/ Return

Spec == Init /\ [][Next]_vars

(***************************************************************************)
(* Properties.                                                             *)
(***************************************************************************)
Returned(o) == pc = "done" /\ op = o

\* The value self points at, with its sign bit flipped.
Negated(t, v) == [v EXCEPT ![Fmt(t).w - 1] = 1 - @]

\* C1: for every finite f64 x, integer_decode(x) = (m, e, s) with s * m * 2^e = x
\* exactly; m carries the implicit bit 52 when x is normal and is the raw
\* mantissa shifted left by one when the exponent field is zero.
C1_F64RoundTrip ==
    (Returned("integer_decode") /\ T = "f64" /\ IeeeIsFinite(F64, Deref(self))) =>
        LET x == Deref(self)
            frac == [i \in 0..63 |-> IF i < 52 THEN x[i] ELSE 0]
        IN  /\ TripleValue(res) = IeeeValue(F64, x)
            /\ res[1] = IF ExpField(F64, x) = 0
                        THEN Shl(frac, 1)
                        ELSE [frac EXCEPT ![52] = 1]

\* The body of integer_decode is right about the word it is given: had bits been
\* the pattern of *self, the triple would denote the value of every finite f64.
DecodeWordOfValueRoundTrips ==
    (pc = "done" /\ T = "f64" /\ IeeeIsFinite(F64, Deref(self))) =>
        TripleValue(Triple(DecodeWord(Deref(self)))) = IeeeValue(F64, Deref(self))

\* `as f64` is exact on every finite f32.
WideningIsExact ==
    (pc = "done" /\ T = "f32" /\ IeeeIsFinite(F32, Deref(self))) =>
        /\ IeeeIsFinite(F64, F32ToF64(Deref(self)))
        /\ IeeeValue(F64, F32ToF64(Deref(self))) = IeeeValue(F32, Deref(self))

\* C2: classify returns exactly one category, fixed by the exponent and mantissa
\* fields alone (masks 0x7f800000 / 0x007fffff and 0x7ff0000000000000 /
\* 0x000fffffffffffff) and not by the sign bit: Zero iff both fields are zero,
\* Subnormal iff the exponent is zero and the mantissa is not, Infinite iff the
\* exponent is all ones and the mantissa zero, Nan iff the exponent is all ones
\* and the mantissa is not zero, Normal otherwise.
C2_Classify ==
    Returned("classify") =>
        LET f == Fmt(T)
            x == Deref(self)
            E == ExpField(f, x)
            mz == FracIsZero(f, x)
        IN  /\ res \in {"Zero", "Subnormal", "Infinite", "Nan", "Normal"}
            /\ (res = "Zero") <=> (E = 0 /\ mz)
            /\ (res = "Subnormal") <=> (E = 0 /\ ~mz)
            /\ (res = "Infinite") <=> (E = ExpMax(f) /\ mz)
            /\ (res = "Nan") <=> (E = ExpMax(f) /\ ~mz)
            /\ (res = "Normal") <=> (E # 0 /\ E # ExpMax(f))
            /\ classify(T, Ref(self.addr, Negated(T, x))) = res
            /\ F32_EXP_MASK = [i \in 0..31 |-> IF i \in 23..30 THEN 1 ELSE 0]
            /\ F32_MAN_MASK = [i \in 0..31 |-> IF i \in 0..22 THEN 1 ELSE 0]
            /\ F64_EXP_MASK = [i \in 0..63 |-> IF i \in 52..62 THEN 1 ELSE 0]
            /\ F64_MAN_MASK = [i \in 0..63 |-> IF i \in 0..51 THEN 1 ELSE 0]

C2_Witness ==
    /\ Returned("classify")
    /\ T = "f32"
    /\ res = "Subnormal"
    /\ SignBit(F32, Deref(self)) = 1

\* C3: the predicates agree with classify on every pattern of either width:
\* is_nan iff Nan, is_infinite iff Infinite, is_normal iff Normal, and is_finite
\* iff Zero, Subnormal or Normal, that is iff not (is_nan or is_infinite).
C3_PredicatesAgree ==
    pc = "done" =>
        LET c == classify(T, self)
        IN  /\ op = "is_nan" => (res <=> c = "Nan")
            /\ op = "is_infinite" => (res <=> c = "Infinite")
            /\ op = "is_normal" => (res <=> c = "Normal")
            /\ op = "is_finite" =>
                  /\ res <=> c \in {"Zero", "Subnormal", "Normal"}
                  /\ res <=> ~(is_nan(T, self) \/ is_infinite(T, self))

C3_Witness ==
    /\ Returned("is_infinite")
    /\ res = TRUE
    /\ SignBit(Fmt(T), Deref(self)) = 1

\* C4: on every value that is not a NaN, is_sign_negative is true exactly when
\* the sign bit is set and is_sign_positive exactly when it is clear, so exactly
\* one of the two holds; -0.0 is sign-negative and not sign-positive although
\* -0.0 == 0.0, and it classifies as Zero.
C4_SignBit ==
    (pc = "done" /\ op \in {"is_sign_positive", "is_sign_negative"}
        /\ ~IeeeIsNan(Fmt(T), Deref(self))) =>
        LET f == Fmt(T)
            x == Deref(self)
        IN  /\ op = "is_sign_negative" => (res <=> SignBit(f, x) = 1)
            /\ op = "is_sign_positive" => (res <=> SignBit(f, x) = 0)
            /\ is_sign_positive(T, self) # is_sign_negative(T, self)
            /\ x = Negated(T, FZero(f)) =>
                  /\ is_sign_negative(T, self)
                  /\ ~is_sign_positive(T, self)
                  /\ FEq(f, x, FZero(f))
                  /\ classify(T, self) = "Zero"

C4_Witness ==
    /\ Returned("is_sign_negative")
    /\ Deref(self) = Negated(T, FZero(Fmt(T)))
    /\ res = TRUE

\* C5: on every NaN pattern, is_sign_negative returns true when the sign bit is
\* set and is_sign_positive returns true when it is clear.
C5_NanSign ==
    (pc = "done" /\ op \in {"is_sign_positive", "is_sign_negative"}
        /\ IeeeIsNan(Fmt(T), Deref(self))) =>
        /\ (op = "is_sign_negative" /\ SignBit(Fmt(T), Deref(self)) = 1) => res
        /\ (op = "is_sign_positive" /\ SignBit(Fmt(T), Deref(self)) = 0) => res

\* What the code does on a NaN: both predicates are false, whatever the sign bit.
NanHasNoSign ==
    (pc = "done" /\ op \in {"is_sign_positive", "is_sign_negative"}
        /\ IeeeIsNan(Fmt(T), Deref(self))) => ~res

\* C6: for every finite f32 x, integer_decode(x) is the triple the f64
\* integer_decode returns for the pattern of x widened to f64, and that triple
\* (m, e, s) has s * m * 2^e = x exactly; m has no implicit bit when x is an f32
\* subnormal and has it when x is an f32 normal.
C6_F32RoundTrip ==
    (Returned("integer_decode") /\ T = "f32" /\ IeeeIsFinite(F32, Deref(self))) =>
        LET x == Deref(self)
        IN  /\ res = Triple(DecodeWord(F32ToF64(x)))
            /\ TripleValue(res) = IeeeValue(F32, x)
            /\ ExpField(F32, x) = 0 => res[1][52] = 0
            /\ ExpField(F32, x) # 0 => res[1][52] = 1

\* C7: two calls of the same operation on values with the same bit pattern
\* return the same result, wherever the values are stored.
C7_Pure ==
    [][(/\ pc = "done"
        /\ pc' = "done"
        /\ T' = T
        /\ op' = op
        /\ Deref(self') = Deref(self)
        /\ Deref(other') = Deref(other)) => res' = res]_vars

\* Every operation but integer_decode is a function of the values passed.
PureButIntegerDecode ==
    [][(/\ pc = "done"
        /\ pc' = "done"
        /\ op # "integer_decode"
        /\ T' = T
        /\ op' = op
        /\ Deref(self') = Deref(self)
        /\ Deref(other') = Deref(other)) => res' = res]_vars

\* The library routine the claim names for a method and a width.
LibmRoutine(t, o) ==
    CASE o = "cbrt" -> IF t = "f32" THEN "cbrtf" ELSE "cbrt"
      [] o = "hypot" -> IF t = "f32" THEN "hypotf" ELSE "hypot"
      [] o = "exp_m1" -> IF t = "f32" THEN "expm1f" ELSE "expm1"
      [] o = "ln_1p" -> IF t = "f32" THEN "log1pf" ELSE "log1p"

\* The values the doc tests assert at 1.0 (and at (1.0, 1.0) for hypot).
DocTestValue(t, o) ==
    CASE o = "cbrt" -> IF t = "f32" THEN One32 ELSE One64
      [] o = "hypot" ->
            IF t = "f32"
            THEN FromHex(32, <<3, 15, 11, 5, 0, 4, 15, 3>>)
            ELSE FromHex(64, <<3, 15, 15, 6, 10, 0, 9, 14, 6, 6, 7, 15, 3, 11, 12, 13>>)
      [] o = "exp_m1" ->
            IF t = "f32"
            THEN FromHex(32, <<3, 15, 13, 11, 15, 0, 10, 8>>)
            ELSE FromHex(64, <<3, 15, 15, 11, 7, 14, 1, 5, 1, 6, 2, 8, 10, 14, 13, 2>>)
      [] o = "ln_1p" ->
            IF t = "f32"
            THEN FromHex(32, <<3, 15, 3, 1, 7, 2, 1, 8>>)
            ELSE FromHex(64, <<3, 15, 14, 6, 2, 14, 4, 2, 15, 14, 15, 10, 3, 9, 14, 15>>)

\* C8: cbrt, hypot, exp_m1 and ln_1p return exactly what the library routine of
\* the same width returns for the same arguments in the same order, and at 1.0
\* the values of the doc tests.
C8_LibmPassThrough ==
    (pc = "done" /\ op \in {"cbrt", "hypot", "exp_m1", "ln_1p"}) =>
        LET one == IF T = "f32" THEN One32 ELSE One64
            args == IF op = "hypot"
                    THEN <<Lit(Deref(self)), Lit(Deref(other))>>
                    ELSE <<Lit(Deref(self))>>
            atOne == \A i \in 1..Len(args) : args[i] = Lit(one)
        IN  /\ atOne => res = Lit(DocTestValue(T, op))
            /\ ~atOne => res = Call(LibmRoutine(T, op), args)

C8_Witness ==
    /\ Returned("hypot")
    /\ T = "f32"
    /\ Deref(self) = One32
    /\ Deref(other) = One32
    /\ res = Lit(FromHex(32, <<3, 15, 11, 5, 0, 4, 15, 3>>))

C10_StaticDispatch ==
    (pc = "done" /\ T = "f32" /\ op \in {"exp", "ln", "log2", "log10"}) =>
        LET x == Lit(Deref(self))
            wide == Lit(F32ToF64(Deref(self)))
        IN  /\ Cardinality(Kept(op, Build)) = 1
            /\ op = "exp" =>
                  res = IF target_env_msvc
                        THEN Call("as f32", <<Call("expf64", <<wide>>)>>)
                        ELSE Call("expf32", <<x>>)
            /\ op = "ln" =>
                  res = IF target_env_msvc
                        THEN Call("as f32", <<Call("logf64", <<wide>>)>>)
                        ELSE Call("logf32", <<x>>)
            /\ op = "log10" =>
                  res = IF target_env_msvc
                        THEN Call("as f32", <<Call("log10f64", <<wide>>)>>)
                        ELSE Call("log10f32", <<x>>)
            /\ op = "log2" =>
                  res = IF target_os_android
                        THEN Call("sys::android::log2f32", <<x>>)
                        ELSE Call("log2f32", <<x>>)

\* Off android the dispatch is as C10 says.
DispatchOffAndroid == ~target_os_android => C10_StaticDispatch

====
